---- MODULE Spec2Model ----
(***************************************************************************)
(* Model of src/index.js: the RTSP-to-HLS gateway.                         *)
(*                                                                         *)
(* Node runs every callback to completion, so each action below is one     *)
(* callback of the program: an HTTP request handler, the ffprobe callback, *)
(* an event of a transcoder child ('start', 'error', 'end'), a poller's    *)
(* timer, the self-destruct interval.  The handlers are written as         *)
(* functions from heap to heap, composed the way the code calls them, and  *)
(* an action commits the heap its handler returns.                         *)
(*                                                                         *)
(* Stream identifiers are 1, 2, ... in order of creation                   *)
(* (uniqueFilename yields a fresh name per Stream).  A transcoder child is *)
(* identified with the spawn() invocation that launched it: spawns[k] holds *)
(* the closure of that invocation (initialCallbackSent, the callbacks) and *)
(* the state of its child.                                                 *)
(***************************************************************************)
EXTENDS Integers, Sequences, FiniteSets, TLC

\* ---- bounds of the model
MaxRequests == 3     \* HTTP requests (/watch.m3u8 and /segment.ts) over a run
MaxStreams == 1      \* Stream objects created over a run
MaxWatches == 4      \* /watch.m3u8 requests over a run of SpecAdmission
MaxSeg == 3          \* index of the last segment the manifest advertises
MaxPolls == 1        \* timer-driven polls of one poller that are explored
MaxQuiet == 2        \* /watch.m3u8 requests over a run of SpecQuiet
MaxTimerPolls == 12  \* timers set by all pollers over a run of SpecPollers

\* ---- program constants
hlsSegmentDuration == 5
hlsSegmentMaxGap == 3
maxProcess == 3

maxTries == IF hlsSegmentDuration * 2 < 10 THEN 10 ELSE hlsSegmentDuration * 2

Ids == 1..(MaxStreams + MaxWatches)
Segs == 0..MaxSeg
\* the segments clients ask for: the first one and a seek to the last one
RequestedSegs == {0, MaxSeg}

\* this.process === null; streams[id] === undefined
null == 0
undefined == 0

\* <identifier>.m3u8 is modelled by its last <identifier><n>.ts entry
NoFile == -1         \* the file does not exist (readFileSync throws)
NoEntry == -2        \* the file exists and holds no segment entry

VARIABLES
  streams,    \* the registry: the identifiers that are keys of `streams`
  created,    \* number of Stream objects constructed by /watch.m3u8
  obj,        \* obj[s]: the fields of Stream s
  files,      \* files[s]: the files <s>* under transcodePath
  spawns,     \* spawns[k]: the k-th spawn() invocation and its child
  pollers,    \* pollers[p]: the p-th StreamSegmentPoller
  hist,       \* hist[s]: what has been observed of Stream s (callbacks, responses)
  rejected,   \* number of /watch.m3u8 requests answered 500 on admission
  mediaDuration,  \* SpecManifest: the duration handed to generateM3U8
  filename,       \* SpecManifest: the identifier handed to generateM3U8
  m3u8            \* SpecManifest: the text generateM3U8 returned, as lines

vars ==
  <<streams, created, obj, files, spawns, pollers, hist, rejected,
    mediaDuration, filename, m3u8>>

\* generateM3U8 reads and writes nothing of the Streams: the text of the
\* manifest is modelled on its own, in SpecManifest
manifestVars == <<mediaDuration, filename, m3u8>>

Heap ==
  [streams |-> streams, obj |-> obj, files |-> files, spawns |-> spawns,
   pollers |-> pollers, hist |-> hist]

Commit(h) ==
  /\ streams' = h.streams
  /\ obj' = h.obj
  /\ files' = h.files
  /\ spawns' = h.spawns
  /\ pollers' = h.pollers
  /\ hist' = h.hist
  /\ UNCHANGED manifestVars

\* ---- class Stream

NewStream ==
  [seekToSegment |-> 0, process |-> null, lastActivity |-> "fresh",
   selfDestructTimer |-> FALSE]

NoFiles == [master |-> FALSE, list |-> NoFile, segs |-> {}]

NoHist ==
  [finishCalls |-> 0, destructed |-> FALSE, watchResp |-> "none"]

\* A child that was launched and has neither exited nor been killed.
LiveChild(r) == r.st \in {"launching", "running"}

\* The child process of spawn() invocation k is gone (how: killed, errored,
\* ended, reaped), and its write position with it
gone(h, k, how) == [h EXCEPT !.spawns[k].st = how, !.spawns[k].next = 0]

\* this.process.kill() / this.streamObject.process.kill() on handle k: the
\* child is signalled; its 'error' event follows (ChildError)
processKill(h, k) ==
  IF LiveChild(h.spawns[k]) THEN gone(h, k, "killed") ELSE h

\* glob.sync(<s>*) and fs.unlink of every match
removeFiles(h, s) == [h EXCEPT !.files[s] = NoFiles]

\* finishCallback that leaves the registry entry in place
finishCallbackKeepsEntry(h, s) == [h EXCEPT !.hist[s].finishCalls = @ + 1]

\* () => { delete streams[streamIdentifier]; }
finishCallback(h, s) ==
  [h EXCEPT !.streams = @ \ {s}, !.hist[s].finishCalls = @ + 1]

\* kill() that removes the files whatever its argument
killRemovesAlways(h, s, remove) ==
  LET h1 == [h EXCEPT !.obj[s].selfDestructTimer = FALSE]
      k  == h1.obj[s].process
      h2 == IF k # null
              THEN [processKill(h1, k) EXCEPT !.obj[s].process = null]
              ELSE h1
  IN  finishCallback(removeFiles(h2, s), s)

kill(h, s, remove) ==
  LET h1 == [h EXCEPT !.obj[s].selfDestructTimer = FALSE]
      k  == h1.obj[s].process
      h2 == IF k # null
              THEN [processKill(h1, k) EXCEPT !.obj[s].process = null]
              ELSE h1
      h3 == IF remove THEN removeFiles(h2, s) ELSE h2
  IN  finishCallback(h3, s)

\* startSelfDestructor that installs no interval
startSelfDestructorNoTimer(h, s) == h

startSelfDestructor(h, s) == [h EXCEPT !.obj[s].selfDestructTimer = TRUE]

\* The closure of one spawn() invocation and its child: st follows the probe and
\* the child, handle is this.process when spawn() is entered, seek and next are
\* the child's -segment_start_number and the next segment it writes
NewSpawn(s, caller, handle) ==
  [stream |-> s, caller |-> caller, handle |-> handle, st |-> "probing",
   initialCallbackSent |-> FALSE, started |-> FALSE, succ |-> 0, err |-> 0,
   seek |-> 0, next |-> 0]

\* spawn(successCallback, errorCallback) up to the call of ffprobe; caller is 0
\* for the /watch.m3u8 handler and p for poller p (they pass the callbacks)
spawn(h, s, caller) ==
  LET h1 == startSelfDestructor(h, s)
  IN  [h1 EXCEPT !.spawns = Append(@, NewSpawn(s, caller, h.obj[s].process))]

\* ---- the callbacks handed to spawn()

\* /watch.m3u8: (m3u8) => { res.writeHead(200, ...); res.end(m3u8); }
watchSuccess(h, s) == [h EXCEPT !.hist[s].watchResp = "200"]

\* /watch.m3u8: () => { streamObject.kill(); delete streams[id]; res.writeHead(500) }
watchError(h, s) ==
  LET h1 == kill(h, s, FALSE)
  IN  [h1 EXCEPT !.streams = @ \ {s}, !.hist[s].watchResp = "500"]

\* StreamSegmentPoller.retry
retry(h, p) ==
  [h EXCEPT !.pollers[p].currentTry = @ + 1, !.pollers[p].st = "waiting"]

\* poller: () => { this.transcodeStarting = false; this.retry(); }
pollerSpawnSuccess(h, p) ==
  retry([h EXCEPT !.pollers[p].transcodeStarting = FALSE], p)

\* /segment.ts: the poller's errorCallback answers 500
pollerError(h, p) ==
  [h EXCEPT !.pollers[p].st = "failed", !.pollers[p].errs = @ + 1]

\* /segment.ts: the poller's successCallback pipes the file to the response
pollerSuccess(h, p) ==
  [h EXCEPT !.pollers[p].st = "served", !.pollers[p].succs = @ + 1]

\* successCallback(placeholderM3U8) of spawn() invocation k
successCallback(h, k) ==
  LET r  == h.spawns[k]
      h1 == [h EXCEPT !.spawns[k].succ = @ + 1]
  IN  IF r.caller = 0 THEN watchSuccess(h1, r.stream)
                      ELSE pollerSpawnSuccess(h1, r.caller)

\* errorCallback(err) of spawn() invocation k
errorCallback(h, k) ==
  LET r  == h.spawns[k]
      h1 == [h EXCEPT !.spawns[k].err = @ + 1]
  IN  IF r.caller = 0 THEN watchError(h1, r.stream)
                      ELSE pollerError(h1, r.caller)

\* ---- spawn(): the ffprobe callback and the handlers of the child's events

\* (probeErr, metadata) => ... with probeErr set
probeFailed(h, k) ==
  errorCallback([h EXCEPT !.spawns[k].st = "probefail",
                          !.spawns[k].initialCallbackSent = TRUE], k)

\* (probeErr, metadata) => ... without error: generateM3U8 writes
\* <s>_master.m3u8, the child is built from this.seekToSegment and run
probeSucceeded(h, k) ==
  LET s == h.spawns[k].stream
  IN  [h EXCEPT !.files[s].master = TRUE,
                !.obj[s].process = k,
                !.obj[s].lastActivity = "fresh",
                !.spawns[k].st = "launching",
                !.spawns[k].seek = h.obj[s].seekToSegment,
                !.spawns[k].next = h.obj[s].seekToSegment]

\* the 'error' handler without the initialCallbackSent test
onErrorNoLatch(h, k) ==
  errorCallback([h EXCEPT !.spawns[k].initialCallbackSent = TRUE], k)

\* this.process.on('error', ...)
onError(h, k) ==
  IF ~h.spawns[k].initialCallbackSent
    THEN errorCallback([h EXCEPT !.spawns[k].initialCallbackSent = TRUE], k)
    ELSE [h EXCEPT !.obj[h.spawns[k].stream].process = null]

\* this.process.on('start', ...)
onStart(h, k) ==
  IF ~h.spawns[k].initialCallbackSent
    THEN successCallback([h EXCEPT !.spawns[k].initialCallbackSent = TRUE], k)
    ELSE h

\* this.process.on('end', ...)
onEnd(h, k) == kill(h, h.spawns[k].stream, FALSE)

\* checkDestruct, once (new Date() - lastActivity) / 1000 > selfDestructDuration
checkDestruct(h, s) ==
  IF h.obj[s].lastActivity = "stale"
    THEN kill([h EXCEPT !.hist[s].destructed = TRUE], s, TRUE)
    ELSE h

\* ---- class StreamSegmentPoller

\* new StreamSegmentPoller(<id><i>.ts, ...): the fields the constructor sets
NewPoller(h, id, i) ==
  [streamIdentifier |-> id, segmentIndex |-> i,
   streamObject |-> IF id \in h.streams THEN id ELSE undefined,
   currentTry |-> 0, transcodeStarting |-> FALSE, newTranscoderStarted |-> FALSE,
   st |-> "waiting", succs |-> 0, errs |-> 0, checks |-> 0]

\* StreamSegmentPoller.updateActivity
updateActivity(h, p) ==
  LET s == h.pollers[p].streamObject
  IN  IF s # undefined THEN [h EXCEPT !.obj[s].lastActivity = "fresh"] ELSE h

\* The decimal digits of n, most significant first: the <n> of <id><n>.ts
RECURSIVE Digits(_)
Digits(n) == IF n < 10 THEN <<n>> ELSE Append(Digits(n \div 10), n % 10)

\* <id><a>.ts sorts before <id><b>.ts in glob's alphabetical order: '.' sorts
\* before every digit, so a proper prefix comes first
RECURSIVE SeqLess(_, _)
SeqLess(x, y) ==
  IF x = <<>> THEN y # <<>>
  ELSE IF y = <<>> THEN FALSE
  ELSE IF Head(x) # Head(y) THEN Head(x) < Head(y)
  ELSE SeqLess(Tail(x), Tail(y))

\* streamFiles.slice(-1)[0] of glob.sync(<id>*.ts), parsed back to its index
lastItem(segs) ==
  CHOOSE a \in segs : \A b \in segs \ {a} : SeqLess(Digits(b), Digits(a))

\* the gap analysis: currentTranscodingIndex from <id>.m3u8, else from the
\* segment files, else 0
currentTranscodingIndex(f) ==
  IF f.list # NoFile
    THEN (IF f.list = NoEntry THEN 0 ELSE f.list)
    ELSE (IF f.segs # {} THEN lastItem(f.segs) ELSE 0)

\* the gap test with > for >=
gapTooBigStrict(i, j) == i - j > hlsSegmentMaxGap

\* this.segmentIndex - currentTranscodingIndex >= hlsSegmentMaxGap
gapTooBig(i, j) == i - j >= hlsSegmentMaxGap

\* shouldStartTranscode without the gap test: a live transcoder is restarted
\* by every poller that has not restarted it yet
shouldStartTranscodeAnyGap(h, r) ==
  IF r.streamObject = undefined THEN TRUE
  ELSE IF r.transcodeStarting THEN FALSE
  ELSE IF h.obj[r.streamObject].process = null THEN TRUE
  ELSE ~r.newTranscoderStarted

shouldStartTranscode(h, r) ==
  IF r.streamObject = undefined THEN TRUE
  ELSE IF r.transcodeStarting THEN FALSE
  ELSE IF h.obj[r.streamObject].process = null THEN TRUE
  ELSE IF ~r.newTranscoderStarted
    THEN gapTooBig(r.segmentIndex, currentTranscodingIndex(h.files[r.streamIdentifier]))
  ELSE FALSE

\* poll(), the branch `shouldStartTranscode && !this.newTranscoderStarted`
restart(h, p) ==
  LET r  == h.pollers[p]
      s  == r.streamObject
      h1 == [h EXCEPT !.pollers[p].transcodeStarting = TRUE,
                      !.pollers[p].newTranscoderStarted = TRUE]
      h2 == IF s # undefined /\ h1.obj[s].process # null
              THEN [processKill(h1, h1.obj[s].process) EXCEPT
                      !.obj[s].selfDestructTimer = FALSE,
                      !.obj[s].seekToSegment = r.segmentIndex]
              ELSE h1
  IN  IF s = undefined
        \* new Stream(this.streamObject.streamUrl, ...) throws a TypeError
        THEN [h2 EXCEPT !.pollers[p].st = "threw"]
        ELSE spawn([h2 EXCEPT !.pollers[p].st = "spawning"], s, p)

\* StreamSegmentPoller.poll
poll(h, p) ==
  LET r  == h.pollers[p]
      \* fs.existsSync(<filename>) is evaluated: one check of the file
      h1 == [h EXCEPT !.pollers[p].checks = @ + 1]
  IN  IF r.currentTry > maxTries THEN pollerError(h, p)
      ELSE IF r.segmentIndex \in h.files[r.streamIdentifier].segs
        THEN pollerSuccess(h1, p)
      ELSE IF shouldStartTranscode(h, r) /\ ~r.newTranscoderStarted
        THEN restart(h1, p)
      ELSE retry(h1, p)

\* The constructor: bind streams[id], updateActivity(), poll()
construct(h, id, i) ==
  LET h1 == [h EXCEPT !.pollers = Append(@, NewPoller(h, id, i))]
      p  == Len(h1.pollers)
  IN  poll(updateActivity(h1, p), p)

\* ---- the /watch.m3u8 handler

\* the admission test with <= for <
admitsOneMore(n) == n <= maxProcess

\* Object.keys(streams).length < maxProcess
admits(n) == n < maxProcess

\* new Stream(...); streams[id] = streamObject; streamObject.spawn(...)
admit(h, s) ==
  spawn([h EXCEPT !.streams = @ \cup {s},
                  !.obj[s] = NewStream,
                  !.hist[s].watchResp = "pending"], s, 0)

\* ---- the actions: one per callback the event loop runs

\* A TypeError thrown out of a request handler or a timer ends the process.
Uncaught == \E p \in DOMAIN pollers : pollers[p].st = "threw"

\* the HTTP requests received so far
Requests == created + rejected + Len(pollers)

Init ==
  /\ streams = {}
  /\ created = 0
  /\ obj = [s \in Ids |-> NewStream]
  /\ files = [s \in Ids |-> NoFiles]
  /\ spawns = <<>>
  /\ pollers = <<>>
  /\ hist = [s \in Ids |-> NoHist]
  /\ rejected = 0
  /\ mediaDuration = 0
  /\ filename = ""
  /\ m3u8 = <<>>

\* GET /watch.m3u8?url=...
WatchHandler ==
  /\ ~Uncaught
  /\ IF admits(Cardinality(streams))
       THEN /\ created' = created + 1
            /\ Commit(admit(Heap, created + 1))
            /\ UNCHANGED rejected
       ELSE /\ rejected' = rejected + 1
            /\ UNCHANGED <<streams, created, obj, files, spawns, pollers, hist>>
            /\ UNCHANGED manifestVars

\* /watch.m3u8 within the bounds of Spec
Watch ==
  /\ Requests < MaxRequests
  /\ admits(Cardinality(streams)) => created < MaxStreams
  /\ WatchHandler

\* ffprobe calls back, with an error or with the metadata
ProbeDone(k) ==
  /\ ~Uncaught
  /\ spawns[k].st = "probing"
  /\ \/ Commit(probeFailed(Heap, k))
     \/ Commit(probeSucceeded(Heap, k))
  /\ UNCHANGED <<created, rejected>>

\* the child of spawn() invocation k emits 'start'
ChildStart(k) ==
  /\ ~Uncaught
  /\ spawns[k].st = "launching"
  /\ Commit(onStart([Heap EXCEPT !.spawns[k].st = "running",
                                 !.spawns[k].started = TRUE], k))
  /\ UNCHANGED <<created, rejected>>

\* the child emits 'error': it failed to start, crashed, or was killed
ChildError(k) ==
  /\ ~Uncaught
  /\ spawns[k].st \in {"launching", "running", "killed"}
  /\ Commit(onError(gone(Heap, k, IF spawns[k].st = "killed" THEN "reaped"
                                                            ELSE "errored"), k))
  /\ UNCHANGED <<created, rejected>>

\* the child emits 'end': the upstream has ended
ChildEnd(k) ==
  /\ ~Uncaught
  /\ spawns[k].st = "running"
  /\ Commit(onEnd(gone(Heap, k, "ended"), k))
  /\ UNCHANGED <<created, rejected>>

\* the child closes segment <s><next>.ts and lists it in <s>.m3u8
ChildWriteSegment(k) ==
  /\ ~Uncaught
  /\ spawns[k].st = "running"
  /\ spawns[k].next <= MaxSeg
  /\ LET s == spawns[k].stream
         n == spawns[k].next
     IN  /\ files' = [files EXCEPT ![s].segs = @ \cup {n}, ![s].list = n]
         /\ spawns' = [spawns EXCEPT ![k].next = n + 1]
  /\ UNCHANGED <<streams, created, obj, pollers, hist, rejected, manifestVars>>

\* selfDestructDuration elapses since lastActivity
TimePasses(s) ==
  /\ ~Uncaught
  /\ s <= created
  /\ obj[s].selfDestructTimer
  /\ obj[s].lastActivity = "fresh"
  /\ obj' = [obj EXCEPT ![s].lastActivity = "stale"]
  /\ UNCHANGED <<streams, created, files, spawns, pollers, hist, rejected,
                 manifestVars>>

\* the selfDestructTimer interval fires
CheckDestruct(s) ==
  /\ ~Uncaught
  /\ s <= created
  /\ obj[s].selfDestructTimer
  /\ Commit(checkDestruct(Heap, s))
  /\ UNCHANGED <<created, rejected>>

\* GET /segment.ts?file=<id><i>.ts, for a segment of a manifest /watch.m3u8 returned
SegmentRequest(id, i) ==
  /\ ~Uncaught
  /\ Requests < MaxRequests
  /\ hist[id].watchResp = "200"
  /\ Commit(construct(Heap, id, i))
  /\ UNCHANGED <<created, rejected>>

\* setTimeout(this.poll.bind(this), 1000) fires
PollTimer(p) ==
  /\ ~Uncaught
  /\ pollers[p].st = "waiting"
  /\ pollers[p].currentTry <= MaxPolls
  /\ Commit(poll(Heap, p))
  /\ UNCHANGED <<created, rejected>>

Next ==
  \/ Watch
  \/ \E k \in DOMAIN spawns : ProbeDone(k)
  \/ \E k \in DOMAIN spawns : ChildStart(k)
  \/ \E k \in DOMAIN spawns : ChildError(k)
  \/ \E k \in DOMAIN spawns : ChildEnd(k)
  \/ \E k \in DOMAIN spawns : ChildWriteSegment(k)
  \/ \E s \in Ids : TimePasses(s)
  \/ \E s \in Ids : CheckDestruct(s)
  \/ \E id \in Ids, i \in RequestedSegs : SegmentRequest(id, i)
  \/ \E p \in DOMAIN pollers : PollTimer(p)

Spec == Init /\ [][Next]_vars

\* Admission: /watch.m3u8 requests only, and the life of the Streams they create
WatchAdmission ==
  /\ Requests < MaxWatches
  /\ WatchHandler

NextAdmission ==
  \/ WatchAdmission
  \/ \E k \in DOMAIN spawns : ProbeDone(k)
  \/ \E k \in DOMAIN spawns : ChildStart(k)
  \/ \E k \in DOMAIN spawns : ChildError(k)
  \/ \E k \in DOMAIN spawns : ChildEnd(k)
  \/ \E s \in Ids : TimePasses(s)
  \/ \E s \in Ids : CheckDestruct(s)

SpecAdmission == Init /\ [][NextAdmission]_vars

\* Pollers to their end: every timer of a poller fires, up to maxTries and
\* beyond, on Streams that stay active (a poller lives some maxTries seconds,
\* selfDestructDuration is longer)

\* retry() calls so far: each adds one to its poller's currentTry and sets a timer
RECURSIVE TimersSet(_)
TimersSet(n) == IF n = 0 THEN 0 ELSE TimersSet(n - 1) + pollers[n].currentTry

PollTimerFires(p) ==
  /\ ~Uncaught
  /\ pollers[p].st = "waiting"
  /\ TimersSet(Len(pollers)) <= MaxTimerPolls
  /\ Commit(poll(Heap, p))
  /\ UNCHANGED <<created, rejected>>

NextPollers ==
  \/ Watch
  \/ \E k \in DOMAIN spawns : ProbeDone(k)
  \/ \E k \in DOMAIN spawns : ChildStart(k)
  \/ \E k \in DOMAIN spawns : ChildError(k)
  \/ \E k \in DOMAIN spawns : ChildEnd(k)
  \/ \E k \in DOMAIN spawns : ChildWriteSegment(k)
  \/ \E id \in Ids, i \in RequestedSegs : SegmentRequest(id, i)
  \/ \E p \in DOMAIN pollers : PollTimerFires(p)

SpecPollers == Init /\ [][NextPollers]_vars

\* ---- properties

Created == 1..created

SpawnsOf(s) == {k \in DOMAIN spawns : spawns[k].stream = s}

\* the child of spawn() invocation k exists (the probe succeeded)
Launched(r) == r.st \notin {"probing", "probefail"}

\* a transcoder of s emitted 'error' after 'start' without having been killed
Crashed(s) == \E k \in SpawnsOf(s) : spawns[k].st = "errored" /\ spawns[k].started

\* kill() has run on s: the /watch.m3u8 spawn failed, a child ended, or s
\* self-destructed
TornDown(s) ==
  \/ hist[s].watchResp = "500"
  \/ \E k \in SpawnsOf(s) : spawns[k].st = "ended"
  \/ hist[s].destructed

\* C1: every Stream has at most one live transcoder child (launched, neither
\* exited nor killed), whatever the interleaving of requests, pollers, probe
\* completions and child events.
OneLiveChildPerStream ==
  \A s \in Ids : Cardinality({k \in SpawnsOf(s) : LiveChild(spawns[k])}) <= 1

\* C2: finishCallback (on_finish) is invoked at most once per Stream, whatever
\* sequence of kill() calls occurs.
FinishAtMostOnce == \A s \in Ids : hist[s].finishCalls <= 1

DeadAsClaimed(s) ==
  \/ \E k \in SpawnsOf(s) : spawns[k].st \in {"probefail", "errored", "ended"}
  \/ hist[s].destructed

\* C4 as claimed: the registry holds an admitted Stream iff it has not reached
\* Dead, an error after start counting as Dead.
RegistryIffNotDead ==
  \A s \in Created : s \in streams <=> ~DeadAsClaimed(s)

\* C4 amended: the registry holds exactly the admitted Streams that kill() has
\* not torn down; kill() runs when the /watch.m3u8 spawn fails (probe error or
\* error before start), at end-of-stream and at self-destruct, and after an
\* error after start or a failed respawn the Stream stays in the registry.
RegistryIffNotTornDown ==
  \A s \in Ids : s \in streams <=> (s \in Created /\ ~TornDown(s))

\* C4 witness: a Stream that crashed after start and is still registered
CrashedStillRegistered == \E s \in streams : Crashed(s)

\* C5: the registry never holds more than maxProcess Streams, and a
\* /watch.m3u8 request that finds it full is answered 500, creates no Stream,
\* starts no probe and leaves the registry unchanged.
AdmissionBounded ==
  /\ [](Cardinality(streams) <= maxProcess)
  /\ [][(Cardinality(streams) = maxProcess
          /\ created' + rejected' = created + rejected + 1)
        => (rejected' = rejected + 1 /\ created' = created
            /\ streams' = streams /\ spawns' = spawns /\ obj' = obj)]_vars

\* C5 witness: a request was refused while the registry was full
RefusedWhenFull == rejected > 0 /\ Cardinality(streams) = maxProcess

\* poller p polls in this step: its constructor runs, or its timer fires
Polls(p) ==
  \/ p \notin DOMAIN pollers
  \/ pollers[p].st = "waiting" /\ pollers'[p] # pollers[p]

\* poller p is about to poll with a Stream bound, attempts left and its file
\* absent (read with Polls(p): a poller under construction has no fields yet)
ReachesTheDecision(p) ==
  LET r == pollers'[p]
  IN  /\ r.streamObject # undefined
      /\ r.segmentIndex \notin files[r.streamIdentifier].segs
      /\ p \in DOMAIN pollers =>
           /\ pollers[p].currentTry <= maxTries
           /\ ~pollers[p].transcodeStarting
           /\ ~pollers[p].newTranscoderStarted

\* C6: a poll for index i of a Stream whose transcoder is live and has produced
\* up to j, with i - j >= hlsSegmentMaxGap, no latch set and the file absent,
\* kills that transcoder and calls spawn() with seekToSegment = i; no poller
\* calls spawn() twice.
GapRestartsOnce ==
  /\ [][\A p \in DOMAIN pollers' :
          LET r == pollers'[p]
              s == r.streamObject
              i == r.segmentIndex
          IN  (/\ Polls(p)
               /\ ReachesTheDecision(p)
               /\ obj[s].process # null
               /\ LiveChild(spawns[obj[s].process])
               /\ i - currentTranscodingIndex(files[s]) >= hlsSegmentMaxGap)
              => /\ spawns'[obj[s].process].st = "killed"
                 /\ Len(spawns') = Len(spawns) + 1
                 /\ spawns'[Len(spawns')].caller = p
                 /\ spawns'[Len(spawns')].stream = s
                 /\ spawns'[Len(spawns')].st = "probing"
                 /\ obj'[s].seekToSegment = i
                 /\ r.st = "spawning"]_vars
  /\ [](\A p \in DOMAIN pollers :
          Cardinality({k \in DOMAIN spawns : spawns[k].caller = p}) <= 1)

\* C6 witness: a poller has killed the transcoder on a gap and its spawn() is
\* under way with seekToSegment = i
GapRestartSeen ==
  \E p \in DOMAIN pollers, k \in DOMAIN spawns :
    /\ pollers[p].st = "spawning"
    /\ spawns[k].caller = p /\ spawns[k].st = "probing"
    /\ spawns[k].handle # null /\ spawns[spawns[k].handle].st = "killed"
    /\ obj[spawns[k].stream].seekToSegment = pollers[p].segmentIndex
    /\ pollers[p].segmentIndex >= hlsSegmentMaxGap

\* C7: a transcoder that a poller respawns after an error after start cleared
\* the handle (spawn() entered with the handle absent) runs with
\* seekToSegment = the index the poller asked for.
RespawnAfterCrashSeeks ==
  \A k \in DOMAIN spawns :
    (/\ spawns[k].caller # 0
     /\ spawns[k].handle = null
     /\ Launched(spawns[k])
     /\ \E c \in SpawnsOf(spawns[k].stream) :
          c < k /\ spawns[c].st = "errored" /\ spawns[c].started)
    => spawns[k].seek = pollers[spawns[k].caller].segmentIndex

\* C8: after a self-destruct the registry does not hold the Stream and no file
\* <identifier>* exists, also when a probe or a child was in flight.
CleanAfterSelfDestruct ==
  \A s \in Ids : hist[s].destructed => (s \notin streams /\ files[s] = NoFiles)

\* C9: when the /watch.m3u8 spawn fails by a transcoder error before start, the
\* request is answered 500, the Stream is not registered and no file
\* <identifier>* remains.
CleanAfterStartFailure ==
  \A k \in DOMAIN spawns :
    (spawns[k].caller = 0 /\ spawns[k].st = "errored" /\ ~spawns[k].started)
    => LET s == spawns[k].stream
       IN  hist[s].watchResp = "500" /\ s \notin streams /\ files[s] = NoFiles

SpawnFindsHandleCleared ==
  \A k \in DOMAIN spawns : spawns[k].handle = null

\* ---- a Stream that no /segment.ts request reaches

\* process.kill() has signalled child k: its 'error' event is delivered
KilledChildError(k) == spawns[k].st = "killed" /\ ChildError(k)

\* /watch.m3u8 within the bounds of SpecQuiet
WatchQuiet ==
  /\ Requests < MaxQuiet
  /\ WatchHandler

NextQuiet ==
  \/ WatchQuiet
  \/ \E k \in DOMAIN spawns : ProbeDone(k)
  \/ \E k \in DOMAIN spawns : ChildStart(k)
  \/ \E k \in DOMAIN spawns : ChildError(k)
  \/ \E k \in DOMAIN spawns : ChildEnd(k)
  \/ \E k \in DOMAIN spawns : ChildWriteSegment(k)
  \/ \E s \in Ids : TimePasses(s)
  \/ \E s \in Ids : CheckDestruct(s)

\* The event loop delivers what is due: the clock advances, the setInterval of
\* the self-destruct check fires, a probe calls back, a launched child emits
\* 'start' and a killed one 'error'.  Nothing obliges a running child to end or
\* to crash.
FairQuiet ==
  /\ \A s \in Ids : WF_vars(TimePasses(s)) /\ WF_vars(CheckDestruct(s))
  /\ \A k \in 1..MaxQuiet :
       /\ WF_vars(k \in DOMAIN spawns /\ ProbeDone(k))
       /\ WF_vars(k \in DOMAIN spawns /\ ChildStart(k))
       /\ WF_vars(k \in DOMAIN spawns /\ KilledChildError(k))

SpecQuiet == Init /\ [][NextQuiet]_vars /\ FairQuiet

\* no child of s is alive, no file <s>* exists and s is not in the registry
Cleared(s) ==
  /\ \A k \in SpawnsOf(s) : ~LiveChild(spawns[k])
  /\ files[s] = NoFiles
  /\ s \notin streams

\* C12: under fairness of the self-destruct check, a Stream that was spawned
\* and receives no segment request is eventually torn down: every child started
\* for it is killed, its files are removed and its registry entry is deleted.
IdleStreamTornDown ==
  \A s \in Ids : (hist[s].watchResp = "200") ~> Cleared(s)

\* poller p has neither a timer pending nor a spawn() under way: it polls no more
Stopped(r) == r.st \notin {"waiting", "spawning"}

\* C13: every poller ends with exactly one call of successCallback or
\* errorCallback and never calls either a second time: a poller that polls no
\* more has answered its /segment.ts request exactly once.
PollerAnswersOnce ==
  \A p \in DOMAIN pollers :
    /\ pollers[p].succs + pollers[p].errs <= 1
    /\ Stopped(pollers[p]) => pollers[p].succs + pollers[p].errs = 1

\* every file <s>* that exists before the step exists after it
FilesKept(s) ==
  /\ files[s].master => files'[s].master
  /\ files[s].list # NoFile => files'[s].list # NoFile
  /\ files[s].segs \subseteq files'[s].segs

\* the step is checkDestruct finding s idle: kill(true)
SelfDestructs(s) ==
  /\ obj[s].selfDestructTimer
  /\ obj[s].lastActivity = "stale"
  /\ hist'[s].destructed
  /\ hist'[s].finishCalls = hist[s].finishCalls + 1
  /\ Len(spawns') = Len(spawns)
  /\ \A k \in DOMAIN spawns :
       spawns'[k].st = spawns[k].st \/ spawns'[k].st = "killed"

\* the step is a poller calling spawn() (the restart path of poll())
PollerRestarts ==
  Len(spawns') = Len(spawns) + 1 /\ spawns'[Len(spawns')].caller # 0

\* the step runs kill() on s without removal
KillsWithoutRemoval(s) ==
  hist'[s].finishCalls = hist[s].finishCalls + 1 /\ ~SelfDestructs(s)

\* C14: files are removed only by the self-destruct (kill(true)); a restart by
\* a poller and a kill() without removal leave every file as it is, and a
\* request for a segment that is on disk is answered by successCallback on its
\* first poll.
FilesRemovedOnlyBySelfDestruct ==
  /\ [][\A s \in Ids : ~FilesKept(s) => SelfDestructs(s)]_vars
  /\ [][(PollerRestarts \/ \E s \in Ids : KillsWithoutRemoval(s))
          => files' = files]_vars
  /\ [][Len(pollers') = Len(pollers) + 1
          => LET r == pollers'[Len(pollers')]
             IN  r.segmentIndex \in files[r.streamIdentifier].segs
                 => (r.st = "served" /\ r.succs = 1 /\ r.errs = 0
                     /\ r.currentTry = 0)]_vars

\* C14 witness: a poller killed the transcoder and respawned it at its index,
\* and a later request for a lower index, written by the previous run and still
\* on disk, was served on its first poll
OlderSegmentServedAfterRestart ==
  \E p, q \in DOMAIN pollers, k \in DOMAIN spawns :
    /\ p < q
    /\ spawns[k].caller = p /\ spawns[k].handle # null
    /\ pollers[q].streamIdentifier = pollers[p].streamIdentifier
    /\ pollers[q].segmentIndex < pollers[p].segmentIndex
    /\ pollers[q].st = "served" /\ pollers[q].currentTry = 0
    /\ pollers[q].segmentIndex \in files[pollers[q].streamIdentifier].segs

\* C15: no /segment.ts request for a file the manifest of /watch.m3u8
\* advertises reaches the restart step of poll() with no Stream bound: the
\* branch that constructs a Stream from the undefined streamObject never runs.
RestartNeverUnbound ==
  \A p \in DOMAIN pollers :
    pollers[p].streamObject = undefined
      => (~pollers[p].newTranscoderStarted /\ pollers[p].st # "threw")

\* ---- Stream.generateM3U8: the text of the placeholder manifest

MaxDuration == 150001   \* longest media duration explored, in 1/10000 s

\* one second in the unit of the model: toFixed(4) prints 1/10000 s
Unit == 10000

Durations == 1..MaxDuration
Filenames == {"k3x9q2ab", "p0m4z7cd"}

DigitChar == <<"0", "1", "2", "3", "4", "5", "6", "7", "8", "9">>

\* the characters of a sequence of decimal digits
Chars(ds) == [i \in 1..Len(ds) |-> DigitChar[ds[i] + 1]]

\* `${index}`
toString(n) == Chars(Digits(n))

\* length.toFixed(4): the integer part, a point and four decimals
toFixed4(x) ==
  toString(x \div Unit) \o <<".">>
    \o Chars(<<(x \div 1000) % 10, (x \div 100) % 10, (x \div 10) % 10, x % 10>>)

\* the segment length that is always a whole hlsSegmentDuration
lengthAlwaysWhole(duration) == hlsSegmentDuration * Unit

\* length = duration >= hlsSegmentDuration ? hlsSegmentDuration : duration
length(duration) ==
  IF duration >= hlsSegmentDuration * Unit THEN hlsSegmentDuration * Unit
                                           ELSE duration

\* the lines written before the loop
header ==
  << <<"#EXTM3U">>,
     <<"#EXT-X-VERSION:3">>,
     <<"#EXT-X-MEDIA-SEQUENCE:0">>,
     <<"#EXT-X-TARGETDURATION: ">> \o toString(hlsSegmentDuration),
     <<"#EXT-X-PLAYLIST-TYPE:VOD">> >>

\* while (duration > 0) { ... }: two lines per segment
RECURSIVE whileDuration(_, _, _, _)
whileDuration(content, duration, index, name) ==
  IF duration > 0
    THEN whileDuration(
           content \o << <<"#EXTINF:">> \o toFixed4(length(duration))
                           \o <<", nodesc">>,
                         <<"/segment.ts?file=", name>> \o toString(index)
                           \o <<".ts">> >>,
           duration - length(duration), index + 1, name)
    ELSE content

\* the manifest as its lines (each a sequence of characters and literals)
generateM3U8(duration, name) ==
  whileDuration(header, duration, 0, name) \o << <<"#EXT-X-ENDLIST">> >>

InitManifest ==
  /\ streams = {}
  /\ created = 0
  /\ obj = [s \in Ids |-> NewStream]
  /\ files = [s \in Ids |-> NoFiles]
  /\ spawns = <<>>
  /\ pollers = <<>>
  /\ hist = [s \in Ids |-> NoHist]
  /\ rejected = 0
  /\ mediaDuration \in Durations
  /\ filename \in Filenames
  /\ m3u8 = <<>>

\* Stream.generateM3U8(metadata.format.duration, this.streamIdentifier)
GenerateM3U8 ==
  /\ m3u8 = <<>>
  /\ m3u8' = generateM3U8(mediaDuration, filename)
  /\ UNCHANGED <<streams, created, obj, files, spawns, pollers, hist, rejected,
                 mediaDuration, filename>>

NextManifest == GenerateM3U8

SpecManifest == InitManifest /\ [][NextManifest]_vars

\* reading the manifest back, as a player does

DigitOf(c) == CHOOSE d \in 0..9 : DigitChar[d + 1] = c

RECURSIVE Value(_)
Value(cs) ==
  IF cs = <<>> THEN 0
  ELSE Value(SubSeq(cs, 1, Len(cs) - 1)) * 10 + DigitOf(cs[Len(cs)])

IsExtInf(line) == line[1] = "#EXTINF:"

\* the duration of an #EXTINF line, in 1/10000 s; -1 if it is not
\* #EXTINF:<digits>.<four digits>, nodesc
ExtInfDuration(line) ==
  LET dots == {i \in 1..Len(line) : line[i] = "."}
      dot  == CHOOSE i \in dots : TRUE
      IsDigit(c) == \E d \in 0..9 : DigitChar[d + 1] = c
  IN  IF /\ IsExtInf(line)
         /\ Cardinality(dots) = 1
         /\ dot > 2
         /\ Len(line) = dot + 5
         /\ line[Len(line)] = ", nodesc"
         /\ \A i \in (2..(Len(line) - 1)) \ {dot} : IsDigit(line[i])
        THEN Value(SubSeq(line, 2, dot - 1)) * Unit
               + Value(SubSeq(line, dot + 1, dot + 4))
        ELSE -1

\* the sum of the #EXTINF durations of the first i lines
RECURSIVE SumOfDurations(_, _)
SumOfDurations(m, i) ==
  IF i = 0 THEN 0
  ELSE SumOfDurations(m, i - 1)
         + (IF IsExtInf(m[i]) THEN ExtInfDuration(m[i]) ELSE 0)

\* C16: for a duration d > 0 and segment duration s, in 1/10000 s, the manifest
\* has exactly ceil(d/s) #EXTINF entries with the URIs
\* /segment.ts?file=<identifier><i>.ts, i = 0 .. ceil(d/s)-1 in this order; every
\* entry but the last lasts s, the last d - (ceil(d/s)-1)*s, the durations sum to
\* d, and the last line is #EXT-X-ENDLIST.
ManifestCoversDuration ==
  m3u8 # <<>> =>
    LET d == mediaDuration
        s == hlsSegmentDuration * Unit
        n == (d + s - 1) \div s
        first == Len(header) + 1
        durationOf(i) == ExtInfDuration(m3u8[first + 2 * i])
    IN  /\ Len(m3u8) = Len(header) + 2 * n + 1
        /\ {i \in 1..Len(m3u8) : IsExtInf(m3u8[i])}
             = {first + 2 * i : i \in 0..(n - 1)}
        /\ \A i \in 0..(n - 1) :
             m3u8[first + 2 * i + 1]
               = <<"/segment.ts?file=", filename>> \o toString(i) \o <<".ts">>
        /\ \A i \in 0..(n - 2) : durationOf(i) = s
        /\ durationOf(n - 1) = d - (n - 1) * s
        /\ SumOfDurations(m3u8, Len(m3u8)) = d
        /\ m3u8[Len(m3u8)] = <<"#EXT-X-ENDLIST">>

\* C16 witness: a manifest of several entries whose last one is shorter than
\* hlsSegmentDuration, with a fraction of a second
ShortLastEntrySeen ==
  /\ m3u8 # <<>>
  /\ mediaDuration > 2 * hlsSegmentDuration * Unit
  /\ mediaDuration % Unit # 0

\* C17: a poller whose file never appears and which never restarts the
\* transcoder checks for the file at most maxTries = max(10, 2 x
\* hlsSegmentDuration) times, one check per poll, and calls errorCallback once
\* those maxTries polls are used up.
ChecksAtMostMaxTries ==
  \A p \in DOMAIN pollers :
    ~pollers[p].newTranscoderStarted
      => /\ pollers[p].checks <= maxTries
         /\ pollers[p].st = "failed" => pollers[p].checks = maxTries

\* C18: a Stream that was torn down and removed from the registry has no live
\* transcoder child: a poller that bound it before the teardown does not
\* respawn it, and a probe that completes after the teardown launches nothing.
NoChildOfTornDownStream ==
  \A s \in Created :
    (TornDown(s) /\ s \notin streams)
      => \A k \in SpawnsOf(s) : ~LiveChild(spawns[k])

\* the step delivers the 'error' or the 'end' event of child k
EventOf(k) ==
  /\ spawns[k].st \in {"launching", "running", "killed"}
  /\ spawns'[k].st \in {"errored", "reaped", "ended"}

\* C19: an event of a superseded child (the 'error' that follows its kill by a
\* poller, or its 'end') leaves the state of the Stream's current child alone:
\* the handle still refers to the newer child, which is still running, and the
\* Stream is not torn down.
SupersededChildIsInert ==
  [][\A k \in DOMAIN spawns :
       LET s == spawns[k].stream
           c == obj[s].process
       IN  (EventOf(k) /\ c # null /\ c > k /\ LiveChild(spawns[c]))
           => /\ obj'[s].process = c
              /\ LiveChild(spawns'[c])
              /\ hist'[s].finishCalls = hist[s].finishCalls]_vars

\* poller p calls spawn() in this step
SpawnsIn(p) ==
  Len(spawns') = Len(spawns) + 1 /\ spawns'[Len(spawns')].caller = p

====
